---- MODULE Spec2Model ----
(***************************************************************************)
(* plonk-core/src/lookup/witness_table.rs: the WitnessTable of the plookup *)
(* argument, filled gate by gate either with free wire values              *)
(* (from_wire_values) or with values validated against a LookupTable       *)
(* (value_from_table).                                                     *)
(*                                                                         *)
(* WitnessTable is translated from witness_table.rs.  LookupTable and      *)
(* MultiSet live in other files of the crate; they are modelled from their *)
(* documented contract (rows of four field elements, one selector per      *)
(* operation family, lookup by (a, b, d)).  The second argument of the     *)
(* bulk constructors is read as the exponent of an exclusive power-of-two  *)
(* upper bound: that is the reading under which the assertions of          *)
(* test_lookup_fuctionality_1 and test_lookup_fuctionality_2 hold          *)
(* (xor_table(0, 3) contains (2, 5); insert_multi_add(2, 3) contains       *)
(* (4, 6)); an inclusive interval [min, max] makes both assertions fail.   *)
(***************************************************************************)
EXTENDS Integers, Sequences, FiniteSets, TLC

\* ------------------------------------------------------------------ bounds

\* The field F is modelled as the integers modulo P.
P == 31

\* Total number of from_wire_values / value_from_table calls in a run.
MaxCalls == 2

\* Number of insert_multi_* calls made on the lookup table after construction.
MaxInserts == 2

\* ------------------------------------------------------- field capability

\* F::from(u64): the canonical embedding of a small integer.
from(n) == n % P

\* F::zero(), F::one(), unary minus.
zero == 0

one == from(1)

neg(x) == (P - x) % P

\* u64 `^`
RECURSIVE BitXor(_, _)
BitXor(a, b) ==
    IF a = 0 THEN b
    ELSE IF b = 0 THEN a
    ELSE (((a % 2) + (b % 2)) % 2) + (2 * BitXor(a \div 2, b \div 2))

\* ------------------------------------------------------------- LookupTable

\* The selector of each operation family (fourth column of a table row).
SELECTOR_XOR == neg(one)

SELECTOR_ADD == zero

\* The integers enumerated by a bulk constructor called with (lower_bound, n).
upper_bound(n) == 2 ^ n

\* The second argument read as an inclusive maximum.
range_inclusive(lower_bound, n) == lower_bound .. n

range(lower_bound, n) == lower_bound .. (upper_bound(n) - 1)

\* One row of each family.
insert_xor_row(a, b) == <<from(a), from(b), from(BitXor(a, b)), SELECTOR_XOR>>

\* The sum reduced modulo the constructor's upper bound.
insert_add_row_mod(a, b, n) == <<from(a), from(b), from((a + b) % upper_bound(n)), SELECTOR_ADD>>

insert_add_row(a, b, n) == <<from(a), from(b), from(a + b), SELECTOR_ADD>>

\* The rows a bulk constructor appends, a-major, in the order of the two loops.
multi_rows(lower_bound, n, op) ==
    LET w == Cardinality(range(lower_bound, n))
        a(k) == lower_bound + ((k - 1) \div w)
        b(k) == lower_bound + ((k - 1) % w)
    IN  [k \in 1 .. (w * w) |->
            IF op = "xor" THEN insert_xor_row(a(k), b(k))
                          ELSE insert_add_row(a(k), b(k), n)]

\* LookupTable::new()
new_table == << >>

\* LookupTable::xor_table(lower_bound, n) = new() then insert_multi_xor
xor_table(lower_bound, n) == new_table \o multi_rows(lower_bound, n, "xor")

\* The position of the first row matching (a, b, d), 0 when there is none.
position(t, a, b, d) ==
    LET hits == {i \in 1 .. Len(t) : t[i][1] = a /\ t[i][2] = b /\ t[i][4] = d}
    IN  IF hits = {} THEN 0
        ELSE CHOOSE i \in hits : \A j \in hits : i <= j

\* LookupTable::lookup(a, b, d): Ok(c) or the lookup-miss error.
lookup(t, a, b, d) ==
    LET pos == position(t, a, b, d)
    IN  IF pos = 0 THEN [ok |-> FALSE, c |-> zero]
        ELSE [ok |-> TRUE, c |-> t[pos][3]]

\* ------------------------------------------------------------------ inputs

\* (lower_bound, n) of the bulk constructors, as the tests call them.
XorArgs == {<<0, 3>>, <<0, 4>>}

AddArgs == {<<2, 3>>}

\* (lower_bound, n) for the table-building runs: nested, overlapping and disjoint
\* ranges, under equal and under different exponents.
TableArgs == {<<0, 1>>, <<0, 2>>, <<1, 2>>, <<2, 3>>, <<0, 3>>}

\* (left, right, fourth) of the value_from_table calls, operands as integers:
\* the calls of the two tests, and the same operands under the other selector.
Queries == {<<2, 5, SELECTOR_XOR>>, <<25, 5, SELECTOR_XOR>>,
            <<2, 3, SELECTOR_XOR>>, <<4, 6, SELECTOR_ADD>>,
            <<22, 1, SELECTOR_XOR>>, <<0, 1, SELECTOR_ADD>>,
            <<2, 3, SELECTOR_ADD>>, <<0, 1, SELECTOR_XOR>>}

\* Rows written by from_wire_values: a genuine table row and a row of no table.
WireRows == {<<from(2), from(3), from(5), SELECTOR_ADD>>,
             <<from(2), from(3), from(9), SELECTOR_ADD>>}

\* ------------------------------------------------------------------- state

VARIABLES
    f_1, f_2, f_3, f_4,   \* WitnessTable: the four MultiSets
    table,                \* the LookupTable: a sequence of rows
    built,                \* history: the bulk constructors applied to table
    origin,               \* history: per witness row, the call that wrote it
    call,                 \* history: the last WitnessTable call and its result
    nWire, nOk, nErr      \* history: calls by outcome

vars == <<f_1, f_2, f_3, f_4, table, built, origin, call, nWire, nOk, nErr>>

\* at: how many bulk constructors the lookup table had received when the call was made.
Call(op, a, b, c, d, ret) ==
    [op |-> op, a |-> a, b |-> b, c |-> c, d |-> d, ret |-> ret, at |-> Len(built)]

Calls == nWire + nOk + nErr

\* MultiSet::push
push(s, v) == Append(s, v)

\* WitnessTable::new() with LookupTable::new() or LookupTable::xor_table(..)
Init ==
    /\ f_1 = << >> /\ f_2 = << >> /\ f_3 = << >> /\ f_4 = << >>
    /\ \/ table = new_table /\ built = << >>
       \/ \E args \in XorArgs :
            /\ table = xor_table(args[1], args[2])
            /\ built = << <<"xor", args[1], args[2]>> >>
    /\ origin = << >>
    /\ call = Call("new", zero, zero, zero, zero, "Ok")
    /\ nWire = 0 /\ nOk = 0 /\ nErr = 0

\* ------------------------------------------------------------- operations

insert_multi_xor(lower_bound, n) ==
    /\ Len(built) < MaxInserts
    /\ table' = table \o multi_rows(lower_bound, n, "xor")
    /\ built' = Append(built, <<"xor", lower_bound, n>>)
    /\ UNCHANGED <<f_1, f_2, f_3, f_4, origin, call, nWire, nOk, nErr>>

insert_multi_add(lower_bound, n) ==
    /\ Len(built) < MaxInserts
    /\ table' = table \o multi_rows(lower_bound, n, "add")
    /\ built' = Append(built, <<"add", lower_bound, n>>)
    /\ UNCHANGED <<f_1, f_2, f_3, f_4, origin, call, nWire, nOk, nErr>>

\* Plausible slips of from_wire_values.
from_wire_values_no_fourth(left_wire_val, right_wire_val, output_wire_val, fourth_wire_val) ==
    /\ Calls < MaxCalls
    /\ f_1' = push(f_1, left_wire_val)
    /\ f_2' = push(f_2, right_wire_val)
    /\ f_3' = push(f_3, output_wire_val)
    /\ origin' = Append(origin, "wire")
    /\ call' = Call("from_wire_values", left_wire_val, right_wire_val,
                    output_wire_val, fourth_wire_val, "Ok")
    /\ nWire' = nWire + 1
    /\ UNCHANGED <<f_4, table, built, nOk, nErr>>

from_wire_values_checked(left_wire_val, right_wire_val, output_wire_val, fourth_wire_val) ==
    /\ Calls < MaxCalls
    /\ LET res == lookup(table, left_wire_val, right_wire_val, fourth_wire_val)
       IN  IF res.ok /\ res.c = output_wire_val
           THEN /\ f_1' = push(f_1, left_wire_val)
                /\ f_2' = push(f_2, right_wire_val)
                /\ f_3' = push(f_3, output_wire_val)
                /\ f_4' = push(f_4, fourth_wire_val)
                /\ origin' = Append(origin, "wire")
           ELSE UNCHANGED <<f_1, f_2, f_3, f_4, origin>>
    /\ call' = Call("from_wire_values", left_wire_val, right_wire_val,
                    output_wire_val, fourth_wire_val, "Ok")
    /\ nWire' = nWire + 1
    /\ UNCHANGED <<table, built, nOk, nErr>>

from_wire_values_front(left_wire_val, right_wire_val, output_wire_val, fourth_wire_val) ==
    /\ Calls < MaxCalls
    /\ f_1' = <<left_wire_val>> \o f_1
    /\ f_2' = <<right_wire_val>> \o f_2
    /\ f_3' = <<output_wire_val>> \o f_3
    /\ f_4' = <<fourth_wire_val>> \o f_4
    /\ origin' = <<"wire">> \o origin
    /\ call' = Call("from_wire_values", left_wire_val, right_wire_val,
                    output_wire_val, fourth_wire_val, "Ok")
    /\ nWire' = nWire + 1
    /\ UNCHANGED <<table, built, nOk, nErr>>

\* WitnessTable::from_wire_values
from_wire_values(left_wire_val, right_wire_val, output_wire_val, fourth_wire_val) ==
    /\ Calls < MaxCalls
    /\ f_1' = push(f_1, left_wire_val)
    /\ f_2' = push(f_2, right_wire_val)
    /\ f_3' = push(f_3, output_wire_val)
    /\ f_4' = push(f_4, fourth_wire_val)
    /\ origin' = Append(origin, "wire")
    /\ call' = Call("from_wire_values", left_wire_val, right_wire_val,
                    output_wire_val, fourth_wire_val, "Ok")
    /\ nWire' = nWire + 1
    /\ UNCHANGED <<table, built, nOk, nErr>>

\* value_from_table with the outcome of the lookup and the four pushes as parameters:
\* the shape every variant below shares.
vft_miss(left_wire_val, right_wire_val, fourth_wire_val) ==
    /\ call' = Call("value_from_table", left_wire_val, right_wire_val, zero,
                    fourth_wire_val, "Err")
    /\ nErr' = nErr + 1
    /\ UNCHANGED <<nWire, nOk>>

vft_hit(left_wire_val, right_wire_val, output_wire_val, fourth_wire_val) ==
    /\ call' = Call("value_from_table", left_wire_val, right_wire_val,
                    output_wire_val, fourth_wire_val, "Ok")
    /\ nOk' = nOk + 1
    /\ UNCHANGED <<nWire, nErr>>

\* Plausible slips of value_from_table.
\* The first two pushes made before the lookup is consulted.
value_from_table_early_push(left_wire_val, right_wire_val, fourth_wire_val) ==
    /\ Calls < MaxCalls
    /\ f_1' = push(f_1, left_wire_val)
    /\ f_2' = push(f_2, right_wire_val)
    /\ LET res == lookup(table, left_wire_val, right_wire_val, fourth_wire_val)
       IN  IF ~res.ok
           THEN /\ vft_miss(left_wire_val, right_wire_val, fourth_wire_val)
                /\ UNCHANGED <<f_3, f_4, origin>>
           ELSE /\ f_3' = push(f_3, res.c)
                /\ f_4' = push(f_4, fourth_wire_val)
                /\ origin' = Append(origin, "table")
                /\ vft_hit(left_wire_val, right_wire_val, res.c, fourth_wire_val)
    /\ UNCHANGED <<table, built>>

\* Output and fourth wire pushed to each other's column.
value_from_table_swapped(left_wire_val, right_wire_val, fourth_wire_val) ==
    /\ Calls < MaxCalls
    /\ LET res == lookup(table, left_wire_val, right_wire_val, fourth_wire_val)
       IN  IF ~res.ok
           THEN /\ vft_miss(left_wire_val, right_wire_val, fourth_wire_val)
                /\ UNCHANGED <<f_1, f_2, f_3, f_4, origin>>
           ELSE /\ f_1' = push(f_1, left_wire_val)
                /\ f_2' = push(f_2, right_wire_val)
                /\ f_3' = push(f_3, fourth_wire_val)
                /\ f_4' = push(f_4, res.c)
                /\ origin' = Append(origin, "table")
                /\ vft_hit(left_wire_val, right_wire_val, res.c, fourth_wire_val)
    /\ UNCHANGED <<table, built>>

\* unwrap_or_default() in place of `?`: a miss pushes the default output.
value_from_table_default_on_miss(left_wire_val, right_wire_val, fourth_wire_val) ==
    /\ Calls < MaxCalls
    /\ LET res == lookup(table, left_wire_val, right_wire_val, fourth_wire_val)
       IN  /\ f_1' = push(f_1, left_wire_val)
           /\ f_2' = push(f_2, right_wire_val)
           /\ f_3' = push(f_3, res.c)
           /\ f_4' = push(f_4, fourth_wire_val)
           /\ origin' = Append(origin, "table")
           /\ vft_hit(left_wire_val, right_wire_val, res.c, fourth_wire_val)
    /\ UNCHANGED <<table, built>>

\* The four pushes made first, the lookup's error returned afterwards.
value_from_table_push_then_fail(left_wire_val, right_wire_val, fourth_wire_val) ==
    /\ Calls < MaxCalls
    /\ LET res == lookup(table, left_wire_val, right_wire_val, fourth_wire_val)
       IN  /\ f_1' = push(f_1, left_wire_val)
           /\ f_2' = push(f_2, right_wire_val)
           /\ f_3' = push(f_3, res.c)
           /\ f_4' = push(f_4, fourth_wire_val)
           /\ origin' = Append(origin, "table")
           /\ IF res.ok
              THEN vft_hit(left_wire_val, right_wire_val, res.c, fourth_wire_val)
              ELSE vft_miss(left_wire_val, right_wire_val, fourth_wire_val)
    /\ UNCHANGED <<table, built>>

\* The selector dropped from the query: any family's row for (left, right) is taken.
value_from_table_any_selector(left_wire_val, right_wire_val, fourth_wire_val) ==
    /\ Calls < MaxCalls
    /\ LET hits == {i \in 1 .. Len(table) :
                        table[i][1] = left_wire_val /\ table[i][2] = right_wire_val}
       IN  IF hits = {}
           THEN /\ vft_miss(left_wire_val, right_wire_val, fourth_wire_val)
                /\ UNCHANGED <<f_1, f_2, f_3, f_4, origin>>
           ELSE LET c == table[CHOOSE i \in hits : \A j \in hits : i <= j][3]
                IN  /\ f_1' = push(f_1, left_wire_val)
                    /\ f_2' = push(f_2, right_wire_val)
                    /\ f_3' = push(f_3, c)
                    /\ f_4' = push(f_4, fourth_wire_val)
                    /\ origin' = Append(origin, "table")
                    /\ vft_hit(left_wire_val, right_wire_val, c, fourth_wire_val)
    /\ UNCHANGED <<table, built>>

\* WitnessTable::value_from_table
value_from_table(left_wire_val, right_wire_val, fourth_wire_val) ==
    /\ Calls < MaxCalls
    /\ LET res == lookup(table, left_wire_val, right_wire_val, fourth_wire_val)
       IN  IF ~res.ok
           THEN \* `?` returns the error before any push
                /\ vft_miss(left_wire_val, right_wire_val, fourth_wire_val)
                /\ UNCHANGED <<f_1, f_2, f_3, f_4, origin>>
           ELSE /\ f_1' = push(f_1, left_wire_val)
                /\ f_2' = push(f_2, right_wire_val)
                /\ f_3' = push(f_3, res.c)
                /\ f_4' = push(f_4, fourth_wire_val)
                /\ origin' = Append(origin, "table")
                /\ vft_hit(left_wire_val, right_wire_val, res.c, fourth_wire_val)
    /\ UNCHANGED <<table, built>>

Next ==
    \/ \E args \in XorArgs : insert_multi_xor(args[1], args[2])
    \/ \E args \in AddArgs : insert_multi_add(args[1], args[2])
    \/ \E row \in WireRows : from_wire_values(row[1], row[2], row[3], row[4])
    \/ \E q \in Queries : value_from_table(from(q[1]), from(q[2]), q[3])

Spec == Init /\ [][Next]_vars

\* The construction of a lookup table alone: any sequence of bulk constructors.
NextTable ==
    \/ \E args \in TableArgs : insert_multi_xor(args[1], args[2])
    \/ \E args \in TableArgs : insert_multi_add(args[1], args[2])

SpecTable == Init /\ [][NextTable]_vars

\* ------------------------------------------------------------ vocabulary

\* Row i of the witness table.
row(i) == <<f_1[i], f_2[i], f_3[i], f_4[i]>>

\* The rows of the lookup table, as a set.
table_rows == {table[i] : i \in 1 .. Len(table)}

\* r is a row of the lookup table.
in_table(r) == \E k \in 1 .. Len(table) : table[k] = r

\* s is a prefix of t.
is_prefix(s, t) == Len(s) <= Len(t) /\ SubSeq(t, 1, Len(s)) = s

\* The step is a call of a WitnessTable method; call' names it.
called == nWire' + nOk' + nErr' # Calls

columns_unchanged == f_1' = f_1 /\ f_2' = f_2 /\ f_3' = f_3 /\ f_4' = f_4

appended(a, b, c, d) ==
    /\ f_1' = Append(f_1, a)
    /\ f_2' = Append(f_2, b)
    /\ f_3' = Append(f_3, c)
    /\ f_4' = Append(f_4, d)

\* ------------------------------------------------------------------ claims

\* C1: a value_from_table call whose lookup misses returns the lookup error and
\* leaves f_1, f_2, f_3 and f_4 exactly as they were.
C1_MissAppendsNothing ==
    [][(called /\ call'.op = "value_from_table"
            /\ ~lookup(table, call'.a, call'.b, call'.d).ok)
        => (call'.ret = "Err" /\ columns_unchanged)]_vars

\* A failed call made on a witness table that already holds a row.
C1_Witness ==
    call.op = "value_from_table" /\ call.ret = "Err" /\ Len(f_1) >= 1

\* C2: a value_from_table call whose lookup returns c returns Ok and appends
\* exactly a to f_1, b to f_2, c to f_3 and d to f_4, earlier rows untouched.
C2_HitAppendsRow ==
    [][(called /\ call'.op = "value_from_table"
            /\ lookup(table, call'.a, call'.b, call'.d).ok)
        => (/\ call'.ret = "Ok"
            /\ appended(call'.a, call'.b,
                        lookup(table, call'.a, call'.b, call'.d).c, call'.d))]_vars

\* A successful call that appended below an earlier row.
C2_Witness ==
    call.op = "value_from_table" /\ call.ret = "Ok" /\ Len(f_1) >= 2

\* C3: the four columns have equal length in every state between calls.
C3_EqualLengths ==
    Len(f_1) = Len(f_2) /\ Len(f_2) = Len(f_3) /\ Len(f_3) = Len(f_4)

\* A direct append and a failed lookup have both happened.
C3_Witness == nWire >= 1 /\ nErr >= 1 /\ Len(f_4) >= 1

\* C4: every row appended by a successful value_from_table call is a row of the
\* lookup table, also when from_wire_values calls are interleaved.
C4_TableRowsGenuine ==
    /\ \A i \in 1 .. Len(origin) :
        origin[i] = "table" => (i <= Len(f_1) /\ in_table(row(i)))
    /\ nWire = 0 => \A i \in 1 .. Len(f_1) : in_table(row(i))

\* A looked-up row next to a directly written row that is in no table.
C4_Witness ==
    /\ C3_EqualLengths
    /\ \E i, j \in 1 .. Len(origin) :
        /\ origin[i] = "table" /\ in_table(row(i))
        /\ origin[j] = "wire" /\ ~in_table(row(j))

\* C5: the common column length is the number of from_wire_values calls plus
\* the number of value_from_table calls that returned Ok.
C5_LengthCountsAppends ==
    /\ Len(f_1) = nWire + nOk
    /\ Len(f_2) = nWire + nOk
    /\ Len(f_3) = nWire + nOk
    /\ Len(f_4) = nWire + nOk

\* A failed and a successful lookup have both happened.
C5_Witness == nErr >= 1 /\ nOk >= 1 /\ Len(f_1) = 1

\* Field elements tried as arguments: operands, a value of no table, both selectors.
FieldSample == {SELECTOR_ADD, from(2), from(9), SELECTOR_XOR}

\* C6: from_wire_values cannot fail and asks nothing of its arguments: it is
\* enabled for every four values and appends them, one to each column.
C6_FromWireUnconditional ==
    /\ [](Calls < MaxCalls =>
            \A a, b, c, d \in FieldSample : ENABLED from_wire_values(a, b, c, d))
    /\ [][(called /\ call'.op = "from_wire_values")
          => (/\ call'.ret = "Ok"
              /\ appended(call'.a, call'.b, call'.c, call'.d))]_vars

\* A row of no lookup table was appended while the table holds rows.
C6_Witness ==
    /\ call.op = "from_wire_values"
    /\ Len(table) > 0 /\ Len(f_1) >= 1
    /\ row(Len(f_1)) = <<call.a, call.b, call.c, call.d>>
    /\ ~in_table(row(Len(f_1)))

\* C10: the witness table is append-only: the table before a step is a prefix
\* of the table after it, so a written row never changes, moves or disappears,
\* and the k-th successful append writes its values at row k.
C10_AppendOnly ==
    [][/\ is_prefix(f_1, f_1') /\ is_prefix(f_2, f_2')
       /\ is_prefix(f_3, f_3') /\ is_prefix(f_4, f_4')
       /\ Len(f_1') \in {Len(f_1), Len(f_1) + 1}
       /\ (called /\ Len(f_1') = Len(f_1) + 1) =>
            (/\ Len(f_1') = nWire' + nOk'
             /\ <<f_1'[Len(f_1')], f_2'[Len(f_1')], f_3'[Len(f_1')], f_4'[Len(f_1')]>>
                    = <<call'.a, call'.b, call'.c, call'.d>>)]_vars

\* Two rows written, in call order.
C10_Witness ==
    /\ Len(f_1) = 2 /\ nWire + nOk = 2
    /\ row(1) # row(2)
    /\ row(2) = <<call.a, call.b, call.c, call.d>>

\* Every field element, as the integer that embeds to it.
Operands == 0 .. (P - 1)

\* The table was built by one insert_multi_xor(lower_bound, n) (or xor_table).
single_xor == Len(built) = 1 /\ built[1][1] = "xor"

\* The last call was value_from_table(a, b, d) on the table as it is now, a and b
\* given as integers.
last_query(a, b, d) ==
    /\ call.op = "value_from_table" /\ call.at = Len(built)
    /\ call.a = from(a) /\ call.b = from(b) /\ call.d = d

\* The last row of the witness table.
last_row == row(Len(f_1))

\* C7 as stated: on a table built by insert_multi_xor(min, max), lookup under
\* SELECTOR_XOR succeeds with the bitwise XOR for all a, b in [min, max] and
\* misses when a or b is outside [min, max]; with xor_table(0, 3),
\* value_from_table(table, 2, 5, SELECTOR_XOR) fails.
C7_Original ==
    /\ (built = << <<"xor", 0, 3>> >> /\ last_query(2, 5, SELECTOR_XOR))
            => call.ret = "Err"
    /\ single_xor =>
        \A a, b \in Operands :
            LET res == lookup(table, from(a), from(b), SELECTOR_XOR)
                min == built[1][2]
                max == built[1][3]
            IN  IF a \in min .. max /\ b \in min .. max
                THEN res.ok /\ res.c = from(BitXor(a, b))
                ELSE ~res.ok

\* C7 amended: the second argument n of insert_multi_xor / xor_table is an
\* exponent. Lookup under SELECTOR_XOR succeeds with the bitwise XOR for all
\* a, b in [min, 2^n - 1] and misses when a or b is outside that interval; with
\* xor_table(0, 3), value_from_table(table, 2, 5, SELECTOR_XOR) succeeds and
\* appends (2, 5, 7, SELECTOR_XOR), and value_from_table(table, 25, 5,
\* SELECTOR_XOR) fails.
C7_XorRangeIsPowerOfTwo ==
    /\ (built = << <<"xor", 0, 3>> >> /\ last_query(2, 5, SELECTOR_XOR))
            => (/\ call.ret = "Ok"
                /\ Len(f_1) >= 1
                /\ last_row = <<from(2), from(5), from(7), SELECTOR_XOR>>)
    /\ (built = << <<"xor", 0, 3>> >> /\ last_query(25, 5, SELECTOR_XOR))
            => call.ret = "Err"
    /\ single_xor =>
        \A a, b \in Operands :
            LET res == lookup(table, from(a), from(b), SELECTOR_XOR)
                min == built[1][2]
                n == built[1][3]
            IN  IF a \in min .. (2 ^ n - 1) /\ b \in min .. (2 ^ n - 1)
                THEN res.ok /\ res.c = from(BitXor(a, b))
                ELSE ~res.ok

\* xor_table(0, 3), then value_from_table(table, 2, 5, SELECTOR_XOR) returned Ok.
C7_Witness ==
    /\ built = << <<"xor", 0, 3>> >>
    /\ last_query(2, 5, SELECTOR_XOR) /\ call.ret = "Ok"
    /\ Len(f_1) = 1

Composite == << <<"xor", 0, 4>>, <<"add", 2, 3>> >>

\* The step is value_from_table(a, b, d), a and b given as integers.
queries(a, b, d) ==
    /\ called /\ call'.op = "value_from_table"
    /\ call'.a = from(a) /\ call'.b = from(b) /\ call'.d = d

\* C9: on the table built by insert_multi_xor(0, 4) then insert_multi_add(2, 3),
\* value_from_table(2, 3, SELECTOR_ADD) succeeds and appends (2, 3, 5,
\* SELECTOR_ADD); value_from_table(22, 1, SELECTOR_XOR) fails;
\* value_from_table(0, 1, SELECTOR_ADD) fails although (0, 1) is present under
\* SELECTOR_XOR; and neither failed call adds a row.
C9_CompositeTable ==
    [][built = Composite =>
        /\ queries(2, 3, SELECTOR_ADD) =>
            (/\ call'.ret = "Ok"
             /\ appended(from(2), from(3), from(5), SELECTOR_ADD))
        /\ queries(22, 1, SELECTOR_XOR) =>
            (call'.ret = "Err" /\ columns_unchanged)
        /\ queries(0, 1, SELECTOR_ADD) =>
            (/\ call'.ret = "Err" /\ columns_unchanged
             /\ lookup(table, from(0), from(1), SELECTOR_XOR).ok)]_vars

\* On the composite table, (2, 3, SELECTOR_ADD) was appended and the query
\* (0, 1, SELECTOR_ADD) then failed.
C9_Witness ==
    /\ built = Composite
    /\ last_query(0, 1, SELECTOR_ADD) /\ call.ret = "Err"
    /\ Len(f_1) = 1 /\ origin = <<"table">>
    /\ row(1) = <<from(2), from(3), from(5), SELECTOR_ADD>>
====
